---- MODULE Spec2Model ----
(***************************************************************************)
(* Model of z3/src/optimize.rs: the Optimize wrapper around the foreign    *)
(* Z3 optimize object.  Every method is a short program of lock, foreign   *)
(* call and unlock steps run by a thread.  The foreign engine is modelled  *)
(* as the doc comments of optimize.rs describe it and, where it does not   *)
(* do what they say (a pop with no push to match, a get_model with no      *)
(* model), as it behaves when the code is run against it.                  *)
(***************************************************************************)
EXTENDS Integers, Sequences, FiniteSets, Bags

VARIABLES
    mutex,   \* Z3_MUTEX: 0 when free, else the thread holding the guard
    th,      \* per thread: the method it is running and its locals
    ret,     \* per thread: what its last completed method returned
    hs,      \* per Optimize value: its lifecycle stage and owning thread
    z3,      \* per Optimize value: the foreign optimize object behind z3_opt
    crashed, \* the process died in undefined behaviour
    obs,     \* per Optimize value: history kept for the properties only
    budget   \* the calls and the declarations the client threads may make

vars == <<mutex, th, ret, hs, z3, crashed, obs, budget>>

----------------------------------------------------------------------------
(* Bounds of the model *)

NumThreads == 2
MaxDepth == 2
MaxDecls == 2
ManyDecls == 3
MaxCalls == 4

Threads == 1..NumThreads
(* One Optimize value of one Context *)
Handles == {"opt"}

(* Values of Z3_lbool, as matched in check_get_model *)
Z3_L_FALSE == -1
Z3_L_UNDEF == 0
Z3_L_TRUE == 1
BadCodes == {2}

(* Inputs: the terms handed in as &Ast and the timeouts.  x is an integer; *)
(* Dom holds the values a model gives it: 0 and 1, on either side of the   *)
(* bounds the terms put on x, and the values -1 and 2 beyond them, which   *)
(* the engine picks as well when no hard constraint keeps x from them      *)
Dom == -1..2
BoolAsts == {"x_gt_0", "x_lt_1"}
SoftAsts == {"x_lt_1"}
NumAsts == {"x"}
ShortTimeouts == {1}
Timeouts == ShortTimeouts \cup {3}
(* The time a check may need: within every timeout, between them, beyond   *)
(* them all                                                                *)
Costs == {1, 2, 4}

None == "none"
(* A Model: the value it gives x, or the model that gives no value        *)
EmptyModel == [empty |-> TRUE, x |-> 0]
ModelOf(v) == [empty |-> FALSE, x |-> v]

----------------------------------------------------------------------------
(* An i64 is kept as its sign and its magnitude, the magnitude in three    *)
(* limbs of nine decimal digits, the most significant first, so that the   *)
(* whole range of i64 is covered: <<a, b, c>> is a * 10^18 + b * 10^9 + c. *)

Limb == 1000000000
I64(n) == [neg |-> n < 0, mag |-> <<0, 0, IF n < 0 THEN 0 - n ELSE n>>]
I64_MIN == [neg |-> TRUE, mag |-> <<9, 223372036, 854775808>>]
I64_MAX == [neg |-> FALSE, mag |-> <<9, 223372036, 854775807>>]
NoWeight == I64(0)

(* The soft weights handed in: zero, a positive and a negative one and the *)
(* two extremes; SmallWeights are those the general client uses            *)
SmallWeights == {I64(0), I64(10)}
Weights == SmallWeights \cup {I64(-7), I64_MIN, I64_MAX}

(* n / 10 and n < 10 on a magnitude *)
Div10(m) == <<m[1] \div 10,
              (m[1] % 10) * (Limb \div 10) + m[2] \div 10,
              (m[2] % 10) * (Limb \div 10) + m[3] \div 10>>
IsDigit(m) == m[1] = 0 /\ m[2] = 0 /\ m[3] < 10

(* weight.to_string(): the decimal text of a signed integer, one character *)
(* per element.                                                            *)

Digit(d) == CASE d = 0 -> "0" [] d = 1 -> "1" [] d = 2 -> "2" [] d = 3 -> "3"
              [] d = 4 -> "4" [] d = 5 -> "5" [] d = 6 -> "6" [] d = 7 -> "7"
              [] d = 8 -> "8" [] d = 9 -> "9"

RECURSIVE NatToString(_)
NatToString(m) == IF IsDigit(m) THEN <<Digit(m[3])>>
                  ELSE NatToString(Div10(m)) \o <<Digit(m[3] % 10)>>

to_string_unsigned(w) == NatToString(w.mag)
to_string(w) == IF w.neg THEN <<"-">> \o NatToString(w.mag) ELSE NatToString(w.mag)

(* The integer a decimal text stands for, as the engine reads the weight *)
DigitValue(c) == CHOOSE d \in 0..9 : Digit(d) = c
Mul10Add(m, d) == <<m[1] * 10 + m[2] \div (Limb \div 10),
                    (m[2] % (Limb \div 10)) * 10 + m[3] \div (Limb \div 10),
                    (m[3] % (Limb \div 10)) * 10 + d>>
(* The magnitude the characters first..last of text stand for *)
RECURSIVE ParseNat(_, _, _)
ParseNat(text, first, last) ==
    IF last < first THEN <<0, 0, 0>>
    ELSE Mul10Add(ParseNat(text, first, last - 1), DigitValue(text[last]))
ParseI64(text) ==
    IF text[1] = "-" THEN [neg |-> TRUE, mag |-> ParseNat(text, 2, Len(text))]
    ELSE [neg |-> FALSE, mag |-> ParseNat(text, 1, Len(text))]

(* std::ptr::null_mut(), the group symbol add_soft passes *)
null_mut == "null"

(* CString::new(text): fails when the text holds a NUL byte *)
CString_new_ok(text) == \A i \in 1..Len(text) : text[i] # "NUL"

----------------------------------------------------------------------------
(* The foreign optimize object.  scopes is the backtracking stack: one bag *)
(* of declarations per level (a term declared twice is held twice), the    *)
(* base level first; <<>> before the object is made.  last is the most     *)
(* recent check: its result code and the model the engine holds from it.   *)

(* timeout is {} until set_params gives one; last.code is <<>> until a     *)
(* check has run, last.late tells that it ran into the timeout.            *)
NoOpt == [rc |-> 0, scopes |-> <<>>, timeout |-> {},
          last |-> [code |-> <<>>, model |-> EmptyModel, late |-> FALSE]]

(* A declaration; a soft one has its weight text and its group symbol *)
Hard(a) == [kind |-> "hard", ast |-> a, weight |-> <<>>, id |-> None]
Soft(a, text, id) == [kind |-> "soft", ast |-> a, weight |-> text, id |-> id]
Max(a) == [kind |-> "max", ast |-> a, weight |-> <<>>, id |-> None]
Min(a) == [kind |-> "min", ast |-> a, weight |-> <<>>, id |-> None]

DeclaredIn(scopes) == UNION {BagToSet(scopes[i]) : i \in 1..Len(scopes)}
Declared(o) == DeclaredIn(o.scopes)
RECURSIVE Count(_)
Count(scopes) == IF scopes = <<>> THEN 0
                 ELSE BagCardinality(Head(scopes)) + Count(Tail(scopes))
Depth(o) == Len(o.scopes) - 1

Holds(a, x) == CASE a = "x_gt_0" -> x > 0
                 [] a = "x_lt_1" -> x < 1
                 [] OTHER -> TRUE
SolsOf(decls) == {x \in Dom : \A d \in decls : d.kind = "hard" => Holds(d.ast, x)}
Sols(o) == SolsOf(Declared(o))
Sat(o) == Sols(o) # {}

(* Every declaration and every pop makes the engine give up the model of   *)
(* the last check: get_model then hands back an empty model                *)
clear_state(o) == [o EXCEPT !.last.model = EmptyModel]

Declare(o, d) ==
    clear_state([o EXCEPT !.scopes[Len(o.scopes)] = @ (+) SetToBag({d})])

Z3_mk_optimize == [NoOpt EXCEPT !.scopes = <<EmptyBag>>]
Z3_optimize_inc_ref(o) == [o EXCEPT !.rc = @ + 1]
Z3_optimize_dec_ref(o) == [o EXCEPT !.rc = @ - 1]
Z3_optimize_set_params(o, params) == [o EXCEPT !.timeout = params]
Z3_params_set_uint(params, ms) == {ms}
Z3_optimize_assert(o, a) == Declare(o, Hard(a))
(* A soft constraint of weight 0 is not kept *)
Z3_optimize_assert_soft(o, a, text, id) ==
    IF ParseI64(text).mag = <<0, 0, 0>> THEN clear_state(o)
    ELSE Declare(o, Soft(a, text, id))
Z3_optimize_maximize(o, a) == Declare(o, Max(a))
Z3_optimize_minimize(o, a) == Declare(o, Min(a))
Z3_optimize_push(o) == [o EXCEPT !.scopes = Append(@, EmptyBag)]
(* pop with no backtracking point breaks the documented precondition: the  *)
(* engine reports no error and leaves the stack as it is                   *)
PopOk(o) == Depth(o) > 0
Z3_optimize_pop(o) ==
    clear_state(IF PopOk(o) THEN [o EXCEPT !.scopes = SubSeq(@, 1, Len(@) - 1)]
                ELSE o)

(* A check that needs `cost` time does not finish within the timeout *)
TimedOut(o, cost) == \E ms \in o.timeout : cost > ms
(* The code a check of o gives when the engine needs `cost` time *)
CheckCode(o, cost) ==
    IF TimedOut(o, cost) THEN Z3_L_UNDEF
    ELSE IF Sat(o) THEN Z3_L_TRUE ELSE Z3_L_FALSE
(* The models a check with that code may leave.  Every term is over x, so  *)
(* a model of a problem with no declaration gives no value.  When          *)
(* satisfiable it is an assignment meeting the hard constraints; when      *)
(* undecided the engine holds no assignment, or a best-effort one.         *)
CheckModels(o, code) ==
    CASE code = Z3_L_TRUE ->
            IF Declared(o) = {} THEN {EmptyModel}
            ELSE {ModelOf(x) : x \in Sols(o)}
      [] code = Z3_L_UNDEF ->
            {EmptyModel} \cup
            (IF Declared(o) = {} THEN {} ELSE {ModelOf(x) : x \in Dom})
      [] OTHER -> {EmptyModel}
Z3_optimize_check(o, cost, code, m) ==
    [o EXCEPT !.last = [code |-> <<code>>, model |-> m, late |-> TimedOut(o, cost)]]

(* "The error handler is invoked if a model is not available because the  *)
(* commands above were not invoked ..., or if the result was Z3_L_FALSE."  *)
(* The engine reports no error in either case: the call returns, with a    *)
(* model that gives no value.                                              *)
ModelAvailable(o) == o.last.code # <<>> /\ o.last.code # <<Z3_L_FALSE>>
Z3_optimize_get_model(o) ==
    IF ModelAvailable(o) THEN o.last.model ELSE EmptyModel

(* Z3_optimize_to_string gives a null pointer, bytes that are no UTF-8, or *)
(* text                                                                    *)
Texts == {"null", "not_utf8", "text"}
(* The Formatter fmt writes to takes the text or fails *)
Sinks == {"takes", "fails"}

----------------------------------------------------------------------------
(* The methods of Optimize, each as the steps it runs in order: "lock" is  *)
(* Z3_MUTEX.lock().unwrap(), "unlock" the drop of the guard at the end of  *)
(* its scope, "match" the match on lbool, and any other step a foreign     *)
(* call.                                                                   *)

new_guard_per_call == <<"lock", "Z3_mk_optimize", "unlock",
                         "lock", "Z3_optimize_inc_ref", "unlock">>
new == <<"lock", "Z3_mk_optimize", "Z3_optimize_inc_ref", "unlock">>
set_timeout_params_unused == <<"lock", "Z3_mk_params", "Z3_mk_string_symbol",
                               "Z3_params_set_uint", "unlock">>
set_timeout == <<"lock", "Z3_mk_params", "Z3_mk_string_symbol",
                 "Z3_params_set_uint", "Z3_optimize_set_params", "unlock">>
assert == <<"lock", "Z3_optimize_assert", "unlock">>
add_soft_as_hard == <<"lock", "CString_new", "Z3_optimize_assert", "unlock">>
add_soft == <<"lock", "CString_new", "Z3_optimize_assert_soft", "unlock">>
maximize == <<"lock", "Z3_optimize_maximize", "unlock">>
minimize == <<"lock", "Z3_optimize_minimize", "unlock">>
push_calls_pop == <<"lock", "Z3_optimize_pop", "unlock">>
push_keeps_guard == <<"lock", "Z3_optimize_push">>
push == <<"lock", "Z3_optimize_push", "unlock">>
pop_calls_push == <<"lock", "Z3_optimize_push", "unlock">>
pop == <<"lock", "Z3_optimize_pop", "unlock">>
check == <<"lock", "Z3_optimize_check", "unlock">>
(* Model::of_optimize is no part of optimize.rs.  It is taken from what    *)
(* the specification says of model retrieval: the engine is asked for the  *)
(* model of the most recent check, in a foreign call made under the lock   *)
(* like every other.                                                       *)
of_optimize == <<"lock", "Z3_optimize_get_model", "unlock">>
(* get_model is the call of Model::of_optimize and nothing else *)
get_model == of_optimize
check_get_model_match_in_guard ==
    <<"lock", "Z3_optimize_check", "match", "unlock">> \o get_model
check_get_model_keeps_guard ==
    <<"lock", "Z3_optimize_check", "match">> \o get_model \o <<"unlock">>
check_get_model == <<"lock", "Z3_optimize_check", "unlock", "match">> \o get_model
fmt == <<"Z3_optimize_to_string">>
drop_without_dec_ref == <<"lock", "unlock">>
drop == <<"lock", "Z3_optimize_dec_ref", "unlock">>

Script(op) == CASE op = "new" -> new
                [] op = "set_timeout" -> set_timeout
                [] op = "assert" -> assert
                [] op = "add_soft" -> add_soft
                [] op = "maximize" -> maximize
                [] op = "minimize" -> minimize
                [] op = "push" -> push
                [] op = "pop" -> pop
                [] op = "check" -> check
                [] op = "check_get_model" -> check_get_model
                [] op = "get_model" -> get_model
                [] op = "fmt" -> fmt
                [] op = "drop" -> drop

LocalSteps == {"lock", "unlock", "match", "CString_new"}
IsForeign(step) == step \notin LocalSteps

----------------------------------------------------------------------------
(* A thread: st is "idle", "run" (inside the method op) or "panicked".     *)
(* ip is the step of Script(op) it stands before, incall holds while the   *)
(* foreign call of that step executes.  ncalls counts the foreign calls    *)
(* made under the guard now held, mcalls the Z3_optimize_get_model calls   *)
(* of this invocation and gcalls the calls of self.get_model() its match   *)
(* made.  own is the model the check of this invocation left in the        *)
(* engine.  before is what was declared when pop was called, and soft      *)
(* tells that the thread's call before a check_get_model was add_soft.  In *)
(* a declaration, after is the push or the declaration that was the        *)
(* thread's call before this one, and cut tells that a foreign call of     *)
(* another thread returned between the two.                                *)

Idle == [st |-> "idle", op |-> None, h |-> None, ast |-> None, weight |-> NoWeight,
         ms |-> 0, ip |-> 0, incall |-> FALSE, lbool |-> <<>>, params |-> {},
         cstr |-> <<>>, model |-> EmptyModel, own |-> EmptyModel, fmt |-> None,
         unwinding |-> FALSE,
         ncalls |-> 0, mcalls |-> 0, gcalls |-> 0, before |-> {}, soft |-> FALSE,
         after |-> None, cut |-> FALSE]
Panicked == [Idle EXCEPT !.st = "panicked"]

(* What obs showed when a method returned *)
NoSeen == [phase |-> None, matched |-> FALSE, snap |-> <<>>, before |-> {},
           code |-> <<>>, soft |-> FALSE]

NoRet == [op |-> None, bool |-> FALSE, outcome |-> None, model |-> EmptyModel,
          fmt |-> None, lbool |-> <<>>, mcalls |-> 0, gcalls |-> 0,
          ms |-> 0, seen |-> NoSeen]

Instr(t) == Script(th[t].op)[th[t].ip]
Running(t) == th[t].st = "run"
InFlight(op, h) == {u \in Threads : Running(u) /\ th[u].op = op /\ th[u].h = h}
(* The threads inside a call that borrows the value; drop takes &mut self, *)
(* which the borrow rules grant only when there is none                     *)
UsedBy_unchecked(h) == {}
UsedBy(h) == {u \in Threads : Running(u) /\ th[u].h = h}

(* An Optimize value: st is "none" before Optimize::new, "new" while it    *)
(* runs, "live", "drop" while Drop::drop runs, then "dropped".             *)
NoHandle == [st |-> "none", owner |-> 0]

(* What is remembered of the calls made on a handle, for the properties:   *)
(* phase is "Building" or "Checked" (the state machine of the              *)
(* specification's section 4.5); snaps holds, per push not yet popped,     *)
(* the stack it was made on; code is the result code of the most recent    *)
(* check or check_get_model.  cut tells,                                   *)
(* per thread, that a foreign call of another thread has returned since    *)
(* the push or declaration that was the thread's last call did.            *)
NoObs == [phase |-> "Building", snaps |-> <<>>, code |-> <<>>,
          cut |-> [t \in Threads |-> FALSE]]

TypeOK ==
    /\ mutex \in [holder : Threads \cup {0}, poisoned : BOOLEAN]
    /\ DOMAIN th = Threads /\ DOMAIN ret = Threads
    /\ DOMAIN hs = Handles /\ DOMAIN z3 = Handles /\ DOMAIN obs = Handles
    /\ crashed \in BOOLEAN
    /\ budget \in [limited : BOOLEAN, left : 0..MaxCalls, decls : {MaxDecls, ManyDecls}]

Start ==
    /\ mutex = [holder |-> 0, poisoned |-> FALSE]
    /\ th = [t \in Threads |-> Idle]
    /\ ret = [t \in Threads |-> NoRet]
    /\ hs = [h \in Handles |-> NoHandle]
    /\ z3 = [h \in Handles |-> NoOpt]
    /\ crashed = FALSE
    /\ obs = [h \in Handles |-> NoObs]

(* Client threads making any number of calls, with MaxDecls declarations  *)
(* held by the engine at a time                                            *)
Init == Start /\ budget = [limited |-> FALSE, left |-> 0, decls |-> MaxDecls]
(* The same with ManyDecls declarations at a time *)
InitDecl == Start /\ budget = [limited |-> FALSE, left |-> 0, decls |-> ManyDecls]
(* Concurrent client threads making MaxCalls calls in all *)
InitMT == Start /\ budget = [limited |-> TRUE, left |-> MaxCalls, decls |-> MaxDecls]

----------------------------------------------------------------------------
(* Return values *)

(* check: Z3_optimize_check(..) == Z3_L_TRUE *)
check_ret_not_false(lbool) == lbool # Z3_L_FALSE
check_ret(lbool) == lbool = Z3_L_TRUE

(* check_get_model: the arm of the match lbool selects *)
MatchArm_undef_as_unsat(lbool) ==
    CASE lbool = Z3_L_TRUE -> "Satisfiable"
      [] lbool = Z3_L_FALSE -> "Unsatisfiable"
      [] lbool = Z3_L_UNDEF -> "Unsatisfiable"
      [] OTHER -> "panic"
MatchArm_other_as_unknown(lbool) ==
    CASE lbool = Z3_L_TRUE -> "Satisfiable"
      [] lbool = Z3_L_FALSE -> "Unsatisfiable"
      [] OTHER -> "Unknown"
MatchArm(lbool) == CASE lbool = Z3_L_TRUE -> "Satisfiable"
                     [] lbool = Z3_L_FALSE -> "Unsatisfiable"
                     [] lbool = Z3_L_UNDEF -> "Unknown"
                     [] OTHER -> "panic"
ArmCallsGetModel(arm) == arm \in {"Satisfiable", "Unknown"}

(* fmt: CStr::from_ptr of a null pointer is undefined behaviour, which     *)
(* either crashes reading through the pointer or reaches the is_null test; *)
(* for a text fmt returns what write! returns                              *)
FmtOutcomes(txt, sink) ==
    CASE txt = "null" -> {"Err", "crash"}
      [] txt = "not_utf8" -> {"Err"}
      [] txt = "text" -> IF sink = "fails" THEN {"Err"} ELSE {"Ok"}

(* The call on the handle that a step of loc completes, as obs records it: *)
(* a method counts when it returns, check_get_model's check when its guard *)
(* is dropped                                                              *)
Event(loc, returns) ==
    CASE loc.op = "check_get_model" ->
            IF Script(loc.op)[loc.ip] = "unlock" /\ loc.mcalls = 0 THEN "check" ELSE None
      [] ~returns -> None
      [] loc.op \in {"assert", "add_soft", "maximize", "minimize"} -> "declare"
      [] loc.op \in {"push", "pop", "check"} -> loc.op
      [] OTHER -> None

Observe(ev, o, ob) ==
    CASE ev = "declare" -> [ob EXCEPT !.phase = "Building"]
      [] ev = "push" -> [ob EXCEPT !.phase = "Building",
                                   !.snaps = Append(@, SubSeq(o.scopes, 1,
                                                              Len(o.scopes) - 1))]
      [] ev = "pop" -> [ob EXCEPT !.phase = "Building",
                                  !.snaps = IF @ = <<>> THEN @
                                            ELSE SubSeq(@, 1, Len(@) - 1)]
      [] ev = "check" -> [ob EXCEPT !.phase = "Checked", !.code = o.last.code]
      [] OTHER -> ob

Seen(loc, ob) ==
    CASE loc.op = "pop" ->
            [NoSeen EXCEPT !.matched = (ob.snaps # <<>>),
                           !.snap = IF ob.snaps = <<>> THEN <<>>
                                    ELSE ob.snaps[Len(ob.snaps)],
                           !.before = loc.before]
      [] loc.op = "get_model" ->
            [NoSeen EXCEPT !.phase = ob.phase, !.code = ob.code]
      [] loc.op = "check_get_model" -> [NoSeen EXCEPT !.soft = loc.soft]
      [] OTHER -> NoSeen

RetOf(loc) ==
    [NoRet EXCEPT
        !.op = loc.op,
        !.bool = IF loc.op = "check" THEN check_ret(loc.lbool[1]) ELSE FALSE,
        !.outcome = IF loc.op = "check_get_model" THEN MatchArm(loc.lbool[1]) ELSE None,
        !.model = loc.model,
        !.fmt = loc.fmt,
        !.lbool = loc.lbool,
        !.mcalls = loc.mcalls,
        !.gcalls = loc.gcalls,
        !.ms = loc.ms,
        !.seen = Seen(loc, obs[loc.h])]

HsAfter(loc) ==
    CASE loc.op = "new" -> [hs EXCEPT ![loc.h].st = "live"]
      [] loc.op = "drop" -> [hs EXCEPT ![loc.h].st = "dropped"]
      [] OTHER -> hs

(* What thread t's step adds to cut *)
SeqOps == {"push", "assert", "add_soft", "maximize", "minimize"}
Sequenced(t, loc, returns, ob) ==
    LET cuts == [u \in Threads |->
                    \/ ob.cut[u]
                    \/ u # t /\ th[t].incall /\ th[u].st = "idle" /\ ret[u].op \in SeqOps]
    IN [ob EXCEPT !.cut = IF returns THEN [cuts EXCEPT ![t] = FALSE] ELSE cuts]

(* The step is done: the method returns, or the thread moves on *)
Done(t, loc, returns) ==
    /\ obs' = [obs EXCEPT ![loc.h] =
                  Sequenced(t, loc, returns, Observe(Event(loc, returns), z3[loc.h], @))]
    /\ IF returns
       THEN /\ th' = [th EXCEPT ![t] = IF loc.unwinding THEN Panicked ELSE Idle]
            /\ ret' = [ret EXCEPT ![t] = RetOf(loc)]
            /\ hs' = HsAfter(loc)
       ELSE /\ th' = [th EXCEPT ![t] = [loc EXCEPT !.ip = @ + 1]]
            /\ UNCHANGED <<ret, hs>>

(* The method returns after its last step *)
After(t, loc) == Done(t, loc, loc.ip = Len(Script(loc.op)))

(* A panic unwinds the thread; a guard dropped while panicking poisons the *)
(* mutex; a panic while already unwinding aborts the process               *)
Panic(t) ==
    /\ th' = [th EXCEPT ![t] = [Panicked EXCEPT !.op = th[t].op, !.lbool = th[t].lbool]]
    /\ mutex' = IF mutex.holder = t THEN [holder |-> 0, poisoned |-> TRUE] ELSE mutex
    /\ crashed' = th[t].unwinding
    /\ UNCHANGED <<ret, hs, obs>>

----------------------------------------------------------------------------
(* Calls: a thread enters a method.  Any thread may call the &self methods *)
(* of a live value; drop takes &mut self, so it runs in the owner, once no *)
(* other call on the value is in progress, also while the owner unwinds.   *)

(* op is a declaration that follows a push or a declaration of thread t *)
Follows(t, op) == op \in SeqOps \ {"push"} /\ ret[t].op \in SeqOps

Enter(t, op, h, a, w, ms) ==
    /\ ~crashed
    /\ budget.limited => budget.left > 0
    /\ budget' = IF budget.limited THEN [budget EXCEPT !.left = @ - 1] ELSE budget
    /\ th' = [th EXCEPT ![t] = [Idle EXCEPT !.st = "run", !.op = op, !.h = h,
                                   !.ast = a, !.weight = w, !.ms = ms, !.ip = 1,
                                   !.unwinding = (th[t].st = "panicked"),
                                   !.before = IF op = "pop" THEN Declared(z3[h])
                                              ELSE {},
                                   !.soft = (op = "check_get_model"
                                               /\ ret[t].op = "add_soft"),
                                   !.after = IF Follows(t, op) THEN ret[t].op
                                             ELSE None,
                                   !.cut = Follows(t, op) /\ obs[h].cut[t]]]
    /\ ret' = [ret EXCEPT ![t] = NoRet]
    /\ obs' = [obs EXCEPT ![h].cut[t] = FALSE]
    /\ UNCHANGED <<mutex, z3, crashed>>

CanCall(t, h) == th[t].st = "idle" /\ hs[h].st = "live"

DeclOps == {"assert", "add_soft", "maximize", "minimize"}
Pending(ops, h) == Cardinality(UNION {InFlight(op, h) : op \in ops})

CallNew(t, h) ==
    /\ th[t].st = "idle"
    /\ hs[h].st = "none"
    /\ Enter(t, "new", h, None, NoWeight, 0)
    /\ hs' = [hs EXCEPT ![h] = [st |-> "new", owner |-> t]]

CallSetTimeout(t, h, ms) ==
    /\ CanCall(t, h)
    /\ Enter(t, "set_timeout", h, None, NoWeight, ms)
    /\ UNCHANGED hs

CanDeclare(h) == Count(z3[h].scopes) + Pending(DeclOps, h) < budget.decls

CallAssert(t, h, a) ==
    /\ CanCall(t, h) /\ CanDeclare(h)
    /\ Enter(t, "assert", h, a, NoWeight, 0)
    /\ UNCHANGED hs

CallAddSoft(t, h, a, w) ==
    /\ CanCall(t, h) /\ CanDeclare(h)
    /\ Enter(t, "add_soft", h, a, w, 0)
    /\ UNCHANGED hs

CallMaximize(t, h, a) ==
    /\ CanCall(t, h) /\ CanDeclare(h)
    /\ Enter(t, "maximize", h, a, NoWeight, 0)
    /\ UNCHANGED hs

CallMinimize(t, h, a) ==
    /\ CanCall(t, h) /\ CanDeclare(h)
    /\ Enter(t, "minimize", h, a, NoWeight, 0)
    /\ UNCHANGED hs

CallPush(t, h) ==
    /\ CanCall(t, h)
    /\ Depth(z3[h]) + Pending({"push"}, h) < MaxDepth
    /\ Enter(t, "push", h, None, NoWeight, 0)
    /\ UNCHANGED hs

CallPop(t, h) ==
    /\ CanCall(t, h)
    /\ Enter(t, "pop", h, None, NoWeight, 0)
    /\ UNCHANGED hs

CallCheck(t, h) ==
    /\ CanCall(t, h)
    /\ Enter(t, "check", h, None, NoWeight, 0)
    /\ UNCHANGED hs

CallCheckGetModel(t, h) ==
    /\ CanCall(t, h)
    /\ Enter(t, "check_get_model", h, None, NoWeight, 0)
    /\ UNCHANGED hs

CallGetModel(t, h) ==
    /\ CanCall(t, h)
    /\ Enter(t, "get_model", h, None, NoWeight, 0)
    /\ UNCHANGED hs

CallFmt(t, h) ==
    /\ CanCall(t, h)
    /\ Enter(t, "fmt", h, None, NoWeight, 0)
    /\ UNCHANGED hs

CallDrop(t, h) ==
    /\ th[t].st \in {"idle", "panicked"}
    /\ hs[h].st = "live" /\ hs[h].owner = t
    /\ UsedBy(h) = {}
    /\ Enter(t, "drop", h, None, NoWeight, 0)
    /\ hs' = [hs EXCEPT ![h].st = "drop"]

----------------------------------------------------------------------------
(* Steps inside a method *)

(* Z3_MUTEX.lock().unwrap(): blocks while another thread holds the guard;  *)
(* on a poisoned mutex unwrap panics and the guard inside the error is     *)
(* dropped                                                                 *)
Lock(t) ==
    /\ ~crashed /\ Running(t) /\ Instr(t) = "lock"
    /\ mutex.holder = 0
    /\ IF mutex.poisoned
       THEN Panic(t)
       ELSE /\ mutex' = [mutex EXCEPT !.holder = t]
            /\ After(t, [th[t] EXCEPT !.ncalls = 0])
            /\ UNCHANGED crashed
    /\ UNCHANGED <<z3, budget>>

(* The guard goes out of scope *)
Unlock(t) ==
    /\ ~crashed /\ Running(t) /\ Instr(t) = "unlock"
    /\ mutex' = [mutex EXCEPT !.holder = 0]
    /\ After(t, th[t])
    /\ UNCHANGED <<z3, crashed, budget>>

(* add_soft: CString::new(weight.to_string()).unwrap() *)
CStringNew(t) ==
    /\ ~crashed /\ Running(t) /\ Instr(t) = "CString_new"
    /\ IF CString_new_ok(to_string(th[t].weight))
       THEN /\ After(t, [th[t] EXCEPT !.cstr = to_string(th[t].weight)])
            /\ UNCHANGED <<mutex, crashed>>
       ELSE Panic(t)
    /\ UNCHANGED <<z3, budget>>

(* check_get_model: match lbool { .. } *)
Match(t) ==
    /\ ~crashed /\ Running(t) /\ Instr(t) = "match"
    /\ LET arm == MatchArm(th[t].lbool[1]) IN
       IF arm = "panic" THEN Panic(t)
       ELSE /\ Done(t, [th[t] EXCEPT
                            !.gcalls = IF ArmCallsGetModel(arm) THEN @ + 1 ELSE @],
                    ~ArmCallsGetModel(arm))
            /\ UNCHANGED <<mutex, crashed>>
    /\ UNCHANGED <<z3, budget>>

(* A foreign call starts executing *)
EnterForeign(t) ==
    /\ ~crashed /\ Running(t) /\ IsForeign(Instr(t))
    /\ ~th[t].incall
    /\ th' = [th EXCEPT ![t].incall = TRUE]
    /\ UNCHANGED <<mutex, ret, hs, z3, crashed, obs, budget>>

(* A foreign call returns: its effect on the optimize object and on the    *)
(* caller's locals                                                         *)
Effect(fn, o, loc) ==
    CASE fn = "Z3_mk_optimize" -> Z3_mk_optimize
      [] fn = "Z3_optimize_inc_ref" -> Z3_optimize_inc_ref(o)
      [] fn = "Z3_optimize_dec_ref" -> Z3_optimize_dec_ref(o)
      [] fn = "Z3_optimize_set_params" -> Z3_optimize_set_params(o, loc.params)
      [] fn = "Z3_optimize_assert" -> Z3_optimize_assert(o, loc.ast)
      [] fn = "Z3_optimize_assert_soft" -> Z3_optimize_assert_soft(o, loc.ast, loc.cstr, null_mut)
      [] fn = "Z3_optimize_maximize" -> Z3_optimize_maximize(o, loc.ast)
      [] fn = "Z3_optimize_minimize" -> Z3_optimize_minimize(o, loc.ast)
      [] fn = "Z3_optimize_push" -> Z3_optimize_push(o)
      [] fn = "Z3_optimize_pop" -> Z3_optimize_pop(o)
      [] OTHER -> o

Locals(fn, o, loc) ==
    CASE fn = "Z3_mk_params" -> [loc EXCEPT !.params = {}]
      [] fn = "Z3_params_set_uint" ->
            [loc EXCEPT !.params = Z3_params_set_uint(loc.params, loc.ms)]
      [] fn = "Z3_optimize_get_model" ->
            [loc EXCEPT !.model = Z3_optimize_get_model(o), !.mcalls = @ + 1]
      [] OTHER -> loc

Stepped(loc) == [loc EXCEPT !.incall = FALSE, !.ncalls = @ + 1]

ReturnForeign(t) ==
    /\ ~crashed /\ Running(t) /\ th[t].incall
    /\ Instr(t) \notin {"Z3_optimize_check", "Z3_optimize_to_string"}
    /\ LET fn == Instr(t)
           h == th[t].h
       IN /\ z3' = [z3 EXCEPT ![h] = Effect(fn, z3[h], th[t])]
          /\ After(t, Stepped(Locals(fn, z3[h], th[t])))
    /\ UNCHANGED <<mutex, crashed, budget>>

(* Z3_optimize_check returns: the engine's code for the declared problem   *)
(* and the time it needs, or a value outside Z3_lbool                      *)
ReturnCheck(t) ==
    /\ ~crashed /\ Running(t) /\ th[t].incall
    /\ Instr(t) = "Z3_optimize_check"
    /\ LET h == th[t].h IN
       \E cost \in Costs :
       \E code \in {CheckCode(z3[h], cost)} \cup BadCodes :
       \E m \in CheckModels(z3[h], code) :
          /\ z3' = [z3 EXCEPT ![h] = Z3_optimize_check(z3[h], cost, code, m)]
          /\ After(t, Stepped([th[t] EXCEPT !.lbool = <<code>>, !.own = m]))
    /\ UNCHANGED <<mutex, crashed, budget>>

(* Z3_optimize_to_string returns and fmt decodes what it got *)
ReturnToString(t) ==
    /\ ~crashed /\ Running(t) /\ th[t].incall
    /\ Instr(t) = "Z3_optimize_to_string"
    /\ \E txt \in Texts, sink \in Sinks :
       \E out \in FmtOutcomes(txt, sink) :
          IF out = "crash"
          THEN /\ crashed' = TRUE
               /\ UNCHANGED <<th, ret, hs, obs>>
          ELSE /\ After(t, Stepped([th[t] EXCEPT !.fmt = out]))
               /\ UNCHANGED crashed
    /\ UNCHANGED <<mutex, z3, budget>>

----------------------------------------------------------------------------
Step(t, bools, softs, nums, weights, timeouts) ==
    \/ \E h \in Handles : CallNew(t, h)
    \/ \E h \in Handles, ms \in timeouts : CallSetTimeout(t, h, ms)
    \/ \E h \in Handles, a \in bools : CallAssert(t, h, a)
    \/ \E h \in Handles, a \in softs, w \in weights : CallAddSoft(t, h, a, w)
    \/ \E h \in Handles, a \in nums : CallMaximize(t, h, a)
    \/ \E h \in Handles, a \in nums : CallMinimize(t, h, a)
    \/ \E h \in Handles : CallPush(t, h)
    \/ \E h \in Handles : CallPop(t, h)
    \/ \E h \in Handles : CallCheck(t, h)
    \/ \E h \in Handles : CallCheckGetModel(t, h)
    \/ \E h \in Handles : CallGetModel(t, h)
    \/ \E h \in Handles : CallFmt(t, h)
    \/ \E h \in Handles : CallDrop(t, h)
    \/ Lock(t)
    \/ Unlock(t)
    \/ CStringNew(t)
    \/ Match(t)
    \/ EnterForeign(t)
    \/ ReturnForeign(t)
    \/ ReturnCheck(t)
    \/ ReturnToString(t)

(* A single client thread with every term *)
Main == {t \in Threads : \A u \in Threads : t <= u}
Next == \E t \in Main : Step(t, BoolAsts, SoftAsts, NumAsts, SmallWeights, ShortTimeouts)

Spec == Init /\ [][Next]_vars

(* A single client thread with every timeout *)
NextTimeout == \E t \in Main : Step(t, BoolAsts, SoftAsts, NumAsts, {NoWeight}, Timeouts)

SpecTimeout == Init /\ [][NextTimeout]_vars

(* A single client thread that makes an Optimize and adds soft constraints *)
(* of every weight                                                         *)
StepSoft(t) ==
    \/ \E h \in Handles : CallNew(t, h)
    \/ \E h \in Handles, a \in SoftAsts, w \in Weights : CallAddSoft(t, h, a, w)
    \/ Lock(t)
    \/ Unlock(t)
    \/ CStringNew(t)
    \/ EnterForeign(t)
    \/ ReturnForeign(t)
NextSoft == \E t \in Main : StepSoft(t)

SpecSoft == Init /\ [][NextSoft]_vars

(* A single client thread that declares hard and soft constraints, as     *)
(* many as ManyDecls at a time, and checks them                            *)
StepDecl(t) ==
    \/ \E h \in Handles : CallNew(t, h)
    \/ \E h \in Handles, a \in BoolAsts : CallAssert(t, h, a)
    \/ \E h \in Handles, a \in SoftAsts, w \in SmallWeights : CallAddSoft(t, h, a, w)
    \/ \E h \in Handles, a \in NumAsts : CallMaximize(t, h, a)
    \/ \E h \in Handles, a \in NumAsts : CallMinimize(t, h, a)
    \/ \E h \in Handles : CallPush(t, h)
    \/ \E h \in Handles : CallPop(t, h)
    \/ \E h \in Handles : CallCheck(t, h)
    \/ \E h \in Handles : CallCheckGetModel(t, h)
    \/ Lock(t)
    \/ Unlock(t)
    \/ CStringNew(t)
    \/ Match(t)
    \/ EnterForeign(t)
    \/ ReturnForeign(t)
    \/ ReturnCheck(t)
NextDecl == \E t \in Main : StepDecl(t)

SpecDecl == InitDecl /\ [][NextDecl]_vars

(* Concurrent client threads, each input set cut to its first element *)
First(S) == {CHOOSE x \in S : TRUE}
NextMT == \E t \in Threads :
    Step(t, First(BoolAsts), First(SoftAsts), First(NumAsts), First(SmallWeights),
         First(Timeouts))

SpecMT == InitMT /\ [][NextMT]_vars

(* Concurrent client threads that go on calling for ever: they make the    *)
(* value, check it with and without a model, ask for the model and push    *)
StepLive(t) ==
    \/ \E h \in Handles : CallNew(t, h)
    \/ \E h \in Handles : CallPush(t, h)
    \/ \E h \in Handles : CallCheck(t, h)
    \/ \E h \in Handles : CallCheckGetModel(t, h)
    \/ \E h \in Handles : CallGetModel(t, h)
    \/ Lock(t)
    \/ Unlock(t)
    \/ Match(t)
    \/ EnterForeign(t)
    \/ ReturnForeign(t)
    \/ ReturnCheck(t)
NextLive == \E t \in Threads : StepLive(t)

(* What the scheduler and the lock give: a thread inside a method keeps    *)
(* running and every foreign call returns; a thread blocked in lock() gets *)
(* Z3_MUTEX if it stays free.  The mutex hands the lock to any of the      *)
(* threads that ask for it, in no promised order, so there is no more than *)
(* weak fairness for taking it.                                            *)
Inside(t) ==
    \/ Unlock(t)
    \/ CStringNew(t)
    \/ Match(t)
    \/ EnterForeign(t)
    \/ ReturnForeign(t)
    \/ ReturnCheck(t)
    \/ ReturnToString(t)
Fair == \A t \in Threads : WF_vars(Inside(t)) /\ WF_vars(Lock(t))
SpecFair == Init /\ [][NextLive]_vars /\ Fair

----------------------------------------------------------------------------
(* Properties *)

InCall == {t \in Threads : th[t].incall}
Opt == CHOOSE h \in Handles : TRUE
ThreeCodes == {Z3_L_TRUE, Z3_L_FALSE, Z3_L_UNDEF}

(* C1: at most one foreign call executes at any time, whatever the threads *)
(* and the methods they run, fmt included.                                 *)
C1_OneForeignCallAtATime == Cardinality(InCall) <= 1

(* C2: the reference count of the optimize object is raised once, by new,  *)
(* and lowered once, by drop: it is 0 before new, 1 for all the life of    *)
(* the value, whatever ran and also when the owner panicked, and 0 again   *)
(* once it is dropped; while new or drop runs it is 0 or 1.                *)
C2_RefCountPaired ==
    \A h \in Handles :
        /\ hs[h].st = "none" => z3[h].rc = 0
        /\ hs[h].st = "live" => z3[h].rc = 1
        /\ hs[h].st = "dropped" => z3[h].rc = 0
        /\ hs[h].st \in {"new", "drop"} => z3[h].rc \in {0, 1}

C2_DroppedAfterPanic ==
    \E t \in Threads :
        /\ th[t].st = "panicked"
        /\ hs[Opt].st = "dropped" /\ hs[Opt].owner = t
        /\ z3[Opt].rc = 0

(* C3, as claimed: under one guard at most one foreign call is made.       *)
C3_GuardCoversOneCall ==
    \A t \in Threads :
        mutex.holder = t => th[t].ncalls + (IF th[t].incall THEN 1 ELSE 0) <= 1

(* C3, amended: a guard of optimize.rs is taken before the first foreign   *)
(* call of its method and dropped after the last; it covers the two calls  *)
(* of new, the four of set_timeout and one call in every other method.     *)
GuardCalls(op) == CASE op = "new" -> 2 [] op = "set_timeout" -> 4 [] OTHER -> 1
InOfOptimize(t) ==
    \/ th[t].op = "get_model"
    \/ th[t].op = "check_get_model" /\ th[t].ip > Len(check_get_model) - Len(of_optimize)
C3_GuardCoversMethodCalls ==
    \A t \in Threads :
        (mutex.holder = t /\ ~InOfOptimize(t)) =>
            /\ th[t].ncalls + (IF th[t].incall THEN 1 ELSE 0) <= GuardCalls(th[t].op)
            /\ Instr(t) = "unlock" => th[t].ncalls = GuardCalls(th[t].op)

C3_SetTimeoutHoldsFourCalls ==
    \E t \in Threads :
        /\ mutex.holder = t /\ th[t].op = "set_timeout"
        /\ Instr(t) = "unlock" /\ th[t].ncalls = 4

(* C4: check_get_model returns Satisfiable for Z3_L_TRUE and Unknown for   *)
(* Z3_L_UNDEF, in both cases having called self.get_model() once, whose    *)
(* Model it attaches; for Z3_L_FALSE it returns Unsatisfiable, having      *)
(* called get_model not at all and issued no Z3_optimize_get_model to the  *)
(* engine.                                                                 *)
C4_CheckGetModelMaps ==
    \A t \in Threads :
        ret[t].op = "check_get_model" =>
            LET c == ret[t].lbool[1] IN
            /\ c \in ThreeCodes
            /\ c = Z3_L_TRUE =>
                  ret[t].outcome = "Satisfiable" /\ ret[t].gcalls = 1
            /\ c = Z3_L_UNDEF =>
                  ret[t].outcome = "Unknown" /\ ret[t].gcalls = 1
            /\ c = Z3_L_FALSE =>
                  /\ ret[t].outcome = "Unsatisfiable"
                  /\ ret[t].gcalls = 0 /\ ret[t].mcalls = 0

(* Unknown, returned after the one call of get_model *)
C4_UnknownWithModel ==
    \E t \in Threads :
        /\ ret[t].op = "check_get_model" /\ ret[t].lbool = <<Z3_L_UNDEF>>
        /\ ret[t].outcome = "Unknown" /\ ret[t].gcalls = 1
        /\ Declared(z3[Opt]) # {}

(* C5: check returns true exactly when the code the engine gave is the one *)
(* check_get_model turns into Satisfiable, and false for every other code. *)
C5_CheckTrueIffSatisfiable ==
    \A t \in Threads :
        ret[t].op = "check" =>
            /\ ret[t].lbool = z3[Opt].last.code
            /\ ret[t].bool <=> (MatchArm(ret[t].lbool[1]) = "Satisfiable")

C5_CheckFalseOnUnknown ==
    \E t \in Threads :
        /\ ret[t].op = "check" /\ ret[t].lbool = <<Z3_L_UNDEF>>
        /\ ~ret[t].bool

(* C6: a pop that finds a push not yet popped brings back the stack of     *)
(* declarations the most recent such push was made on, level by level and  *)
(* with every term held as often as it was declared: the declarations made *)
(* since that push are gone, those made before it, the ones of an earlier  *)
(* push not yet popped included, are all there.                            *)
C6_PopRestoresPushPoint ==
    \A t \in Threads :
        (ret[t].op = "pop" /\ ret[t].seen.matched) =>
            /\ z3[Opt].scopes = ret[t].seen.snap
            /\ Declared(z3[Opt]) = DeclaredIn(ret[t].seen.snap)
            /\ Depth(z3[Opt]) = Len(obs[Opt].snaps)

(* The inner of two pushes has been popped: the hard constraints declared  *)
(* since had no solution, those of the outer push, which is not yet        *)
(* popped, are back and have one                                           *)
C6_PopRevertsUnsat ==
    \E t \in Threads :
        /\ ret[t].op = "pop" /\ ret[t].seen.matched
        /\ Depth(z3[Opt]) = 1
        /\ z3[Opt].scopes[2] # EmptyBag
        /\ SolsOf(ret[t].seen.before) = {}
        /\ Sat(z3[Opt])

(* C7: a push, and a pop that finds a push not yet popped, break no        *)
(* precondition; a pop made when every push on the handle has been popped  *)
(* already is flagged as invalid: it reaches an error state, the thread    *)
(* panics or the process ends, and it does not return as a valid pop does. *)
C7_ExtraPopFlagged ==
    \A t \in Threads :
        (ret[t].op = "pop" /\ ~ret[t].seen.matched) =>
            (crashed \/ th[t].st = "panicked")

C9_StaleModelNotReused ==
    \A t \in Threads :
        (ret[t].op = "get_model" /\ ret[t].seen.phase = "Building") =>
            ret[t].model.empty

(* C10: check_get_model returns only for the three codes of Z3_lbool; on   *)
(* any other code it panics at the match, having made no model call, and   *)
(* returns nothing.                                                        *)
C10_BadCodePanics ==
    \A t \in Threads :
        /\ ret[t].op = "check_get_model" => ret[t].lbool[1] \in ThreeCodes
        /\ (th[t].op = "check_get_model" /\ th[t].lbool # <<>>
              /\ th[t].lbool[1] \notin ThreeCodes) =>
                 /\ th[t].st = "panicked" \/ Instr(t) \in {"unlock", "match"}
                 /\ th[t].mcalls = 0
                 /\ ret[t] = NoRet

C10_PanickedOnBadCode ==
    \E t \in Threads :
        /\ th[t].st = "panicked" /\ th[t].op = "check_get_model"
        /\ th[t].lbool[1] \in BadCodes
        /\ ret[t] = NoRet

(* C11: the handle is not used after its release.  Z3_optimize_dec_ref     *)
(* executes only under the guard; from the moment drop is entered no       *)
(* thread but the owner is inside a call on the value and the owner runs   *)
(* drop itself; once the count is back to 0 no foreign call on the handle  *)
(* executes and no call on it is in progress after drop returned.          *)
C11_NoUseAfterRelease ==
    \A h \in Handles :
        LET users == {u \in Threads : th[u].st = "run" /\ th[u].h = h} IN
        /\ \A t \in users :
              (th[t].incall /\ Instr(t) = "Z3_optimize_dec_ref") => mutex.holder = t
        /\ hs[h].st \in {"drop", "dropped"} =>
              /\ users \subseteq {hs[h].owner}
              /\ \A t \in users : th[t].op = "drop"
        /\ (hs[h].st \in {"drop", "dropped"} /\ z3[h].rc = 0) =>
              \A t \in users : ~th[t].incall
        /\ hs[h].st = "dropped" => users = {}

C11_DroppedAfterOtherThreadsCall ==
    \E t \in Threads, u \in Threads :
        /\ t # u
        /\ hs[Opt].st = "dropped" /\ hs[Opt].owner = t /\ z3[Opt].rc = 0
        /\ ret[t].op = "drop"
        /\ ret[u].op = "assert" /\ th[u].st = "idle"

(* C12: a sequence of calls is not atomic.  No guard outlives the method   *)
(* that took it: a thread that is not inside a method does not hold        *)
(* Z3_MUTEX, and a thread about to lock does not hold it either, so        *)
(* between two calls of one thread every other thread may take it; a       *)
(* foreign call of another thread is recorded as such only after the       *)
(* earlier push or declaration had returned.                               *)
C12_NoGuardBetweenCalls ==
    \A t \in Threads :
        /\ th[t].st # "run" => mutex.holder # t
        /\ (th[t].st = "run" /\ Instr(t) = "lock") => mutex.holder # t
        /\ th[t].cut => (th[t].after \in SeqOps /\ th[t].op \in SeqOps \ {"push"})

(* Another thread's foreign call has run between a thread's push and the   *)
(* Z3_optimize_assert of its next call                                     *)
C12_CallBetweenPushAndAssert ==
    \E t \in Threads :
        /\ th[t].st = "run" /\ th[t].op = "assert" /\ th[t].incall
        /\ th[t].after = "push" /\ th[t].cut

(* What a step may do to the timeout and to the result of the last check *)
C13_TimeoutStep ==
    /\ z3'[Opt].timeout # z3[Opt].timeout =>
          \E t \in Threads :
              /\ th[t].op = "set_timeout"
              /\ Instr(t) = "Z3_optimize_set_params"
              /\ z3'[Opt].timeout = {th[t].ms}
    /\ (\E t \in Threads : th[t].op = "set_timeout") =>
          z3'[Opt].last = z3[Opt].last
    /\ z3'[Opt].last # z3[Opt].last =>
          /\ (z3[Opt].timeout = {}) => ~z3'[Opt].last.late
          /\ z3'[Opt].last.late =>
                z3'[Opt].last.code \notin {<<Z3_L_FALSE>>, <<Z3_L_TRUE>>}

(* C13: the timeout of the handle is the one the last set_timeout gave and *)
(* changes in no other step; set_timeout leaves the result of the check    *)
(* made before it as it was; a check made with no timeout in force never   *)
(* runs into one, and a check that ran into the timeout gives neither      *)
(* Z3_L_FALSE nor Z3_L_TRUE: check returns false and check_get_model       *)
(* returns Unknown.                                                        *)
C13_TimeoutPersistentForwardOnly ==
    /\ [](\A t \in Threads :
            /\ ret[t].op = "set_timeout" => z3[Opt].timeout = {ret[t].ms}
            /\ (ret[t].op = "check" /\ z3[Opt].last.late) => ~ret[t].bool
            /\ (ret[t].op = "check_get_model" /\ z3[Opt].last.late) =>
                  ret[t].outcome = "Unknown")
    /\ [][C13_TimeoutStep]_vars

(* A problem with no solution, checked after set_timeout(1) and a          *)
(* declaration made since: Unknown                                         *)
C13_UnknownOnUnsatProblem ==
    \E t \in Threads :
        /\ ret[t].op = "check_get_model" /\ ret[t].outcome = "Unknown"
        /\ z3[Opt].last.late /\ z3[Opt].timeout = {1}
        /\ ~Sat(z3[Opt])

(* C14: fmt never ends the process: whatever Z3_optimize_to_string hands   *)
(* back, a null pointer included, fmt returns to its caller, with Err or   *)
(* with Ok.                                                                *)
C14_FmtErrOnNull ==
    \A t \in Threads :
        /\ (th[t].op = "fmt" /\ th[t].incall) => ~crashed
        /\ ret[t].op = "fmt" => ret[t].fmt \in {"Ok", "Err"}

(* The hard constraints the engine holds, level by level *)
HardOf(scopes) ==
    [i \in 1..Len(scopes) |-> {d \in BagToSet(scopes[i]) : d.kind = "hard"}]

(* No step of add_soft adds or removes a hard constraint or a level, or    *)
(* changes the code a check gives                                          *)
C15_SoftStep ==
    \A t \in Threads :
        (th[t].st = "run" /\ th[t].op = "add_soft") =>
            /\ HardOf(z3'[Opt].scopes) = HardOf(z3[Opt].scopes)
            /\ \A cost \in Costs : CheckCode(z3'[Opt], cost) = CheckCode(z3[Opt], cost)

(* C15: a soft constraint does not change satisfiability.  add_soft, with  *)
(* weight 0 as with any other, leaves the hard constraints and the code a  *)
(* check gives as they were, and check_get_model returns Unsatisfiable     *)
(* only for a problem whose hard constraints, the terms given to assert,   *)
(* have no solution.                                                       *)
C15_SoftKeepsSatisfiability ==
    /\ [](\A t \in Threads :
            (ret[t].op = "check_get_model" /\ ret[t].outcome = "Unsatisfiable") =>
                /\ \E d \in Declared(z3[Opt]) : d.kind = "hard" /\ d.ast \in BoolAsts
                /\ \A x \in Dom : \E d \in Declared(z3[Opt]) :
                      d.kind = "hard" /\ ~Holds(d.ast, x))
    /\ [][C15_SoftStep]_vars

(* add_soft has run on hard constraints that have no solution: the engine  *)
(* holds its soft constraint of weight 10, and the check_get_model that    *)
(* followed returned Unsatisfiable                                         *)
C15_UnsatWithSoftKept ==
    \E t \in Threads :
        /\ ret[t].op = "check_get_model" /\ ret[t].outcome = "Unsatisfiable"
        /\ ret[t].seen.soft
        /\ \E d \in Declared(z3[Opt]) :
              d.kind = "soft" /\ ParseI64(d.weight) = I64(10)
        /\ {"x_gt_0", "x_lt_1"} \subseteq
              {d.ast : d \in {e \in Declared(z3[Opt]) : e.kind = "hard"}}

(* C16: the weight crosses to the engine as its decimal text and the group *)
(* symbol as null.  For the weight add_soft was called with, negative,     *)
(* zero and the least and the greatest i64 included, the text has no NUL   *)
(* byte and reads back as the same integer, so CString::new(..).unwrap()   *)
(* never panics in add_soft, and every soft declaration the engine holds   *)
(* has such a text and a null symbol.                                      *)
C16_WeightTextRoundTrips ==
    /\ \A t \in Threads :
          th[t].op = "add_soft" =>
              /\ th[t].st # "panicked"
              /\ th[t].weight \in Weights
              /\ CString_new_ok(to_string(th[t].weight))
              /\ ParseI64(to_string(th[t].weight)) = th[t].weight
              /\ th[t].cstr # <<>> => th[t].cstr = to_string(th[t].weight)
    /\ \A d \in Declared(z3[Opt]) :
          d.kind = "soft" => (d.id = "null" /\ ParseI64(d.weight) \in Weights)

(* The engine holds a soft constraint whose weight is the least i64 *)
C16_MinWeightDeclared ==
    \E d \in Declared(z3[Opt]) :
        /\ d.kind = "soft" /\ d.id = "null"
        /\ Len(d.weight) = 20 /\ d.weight[1] = "-"
        /\ ParseI64(d.weight) = I64_MIN

(* C17: the model check_get_model returns is the model of its own check.   *)
(* From the return of its Z3_optimize_check until its                      *)
(* Z3_optimize_get_model the engine's most recent check is still that one, *)
(* whatever the other threads do, and the model that call gives is the one *)
(* its own check left.                                                     *)
C17_ModelOfOwnCheck ==
    \A t \in Threads :
        /\ (th[t].st = "run" /\ th[t].op = "check_get_model"
              /\ th[t].lbool # <<>> /\ th[t].mcalls = 0) =>
                 z3[Opt].last.code = th[t].lbool
        /\ (th[t].st = "run" /\ th[t].op = "check_get_model" /\ th[t].mcalls = 1) =>
                 th[t].model = th[t].own

(* C18, as claimed: the lock protocol neither deadlocks nor starves.  A    *)
(* thread about to lock Z3_MUTEX never holds it already, a thread outside  *)
(* a method never holds it, and under a fair scheduler, as long as the     *)
(* process lives, every thread waiting for the lock gets it and every      *)
(* method that was entered returns or unwinds.                             *)
C18_LockProtocolLive ==
    /\ [](\A t \in Threads :
            /\ (th[t].st = "run" /\ Instr(t) = "lock") => mutex.holder # t
            /\ th[t].st # "run" => mutex.holder # t)
    /\ \A t \in Threads :
          (th[t].st = "run" /\ Instr(t) = "lock") ~> (mutex.holder = t \/ crashed)
    /\ \A t \in Threads :
          (th[t].st = "run") ~> (th[t].st # "run" \/ crashed)

(* The threads blocked in lock() *)
Waiting == {t \in Threads : th[t].st = "run" /\ Instr(t) = "lock"}

(* C18, amended: the lock protocol does not deadlock.  A thread about to   *)
(* lock Z3_MUTEX never holds it already and a thread outside a method      *)
(* never holds it; as long as the process lives every thread that holds    *)
(* the lock gives it up, and a lock that is free while a thread waits for  *)
(* it is taken, by that thread or by another.                              *)
C18_LockProtocolDeadlockFree ==
    /\ [](\A t \in Threads :
            /\ (th[t].st = "run" /\ Instr(t) = "lock") => mutex.holder # t
            /\ th[t].st # "run" => mutex.holder # t)
    /\ \A t \in Threads :
          (mutex.holder = t) ~> (mutex.holder # t \/ crashed)
    /\ (Waiting # {} /\ mutex.holder = 0) ~> (mutex.holder # 0 \/ crashed)

(* check_get_model has given up the guard of its check and holds the one   *)
(* of its get_model, while another thread waits for the lock               *)
C18_RelockedWhileOtherWaits ==
    \E t \in Threads, u \in Threads :
        /\ t # u
        /\ th[t].st = "run" /\ th[t].op = "check_get_model" /\ InOfOptimize(t)
        /\ mutex.holder = t
        /\ th[u].st = "run" /\ Instr(u) = "lock"

(* C19: no method panics while it holds Z3_MUTEX.  The mutex is never      *)
(* poisoned; a thread that has panicked did so in check_get_model, on a    *)
(* code outside Z3_lbool and holding no guard, or has since dropped the    *)
(* value while unwinding; and the process is never aborted by a second     *)
(* panic, so that the other threads and drop go on taking the lock.        *)
C19_NoPanicUnderLock ==
    /\ ~mutex.poisoned
    /\ \A t \in Threads :
          th[t].st = "panicked" =>
              /\ mutex.holder # t
              /\ th[t].op \in {"check_get_model", None}
              /\ th[t].op = "check_get_model" => th[t].lbool[1] \notin ThreeCodes
    /\ crashed => \E t \in Threads : th[t].op = "fmt" /\ th[t].incall

(* After the panic of one thread the owner, another thread, has dropped    *)
(* the value                                                               *)
C19_DropAfterOtherThreadsPanic ==
    \E t \in Threads, u \in Threads :
        /\ t # u
        /\ th[t].st = "panicked" /\ th[t].op = "check_get_model"
        /\ hs[Opt].st = "dropped" /\ hs[Opt].owner = u
        /\ ret[u].op = "drop" /\ z3[Opt].rc = 0
        /\ ~mutex.poisoned
====
